---- MODULE Spec2Model ----
(***************************************************************************)
(* DNA Health Tracker backend (src/main.py, src/schemas.py).               *)
(*                                                                         *)
(* State: the store handle `db`, the three collections, the request        *)
(* handlers in flight (`req`) and the response of the last handler step    *)
(* (`last`).  A create handler takes two steps (the lookup, then the       *)
(* insert); every other handler is one step.                               *)
(***************************************************************************)
EXTENDS Integers, Sequences, FiniteSets, TLC

VARIABLES db, userprofile, geneticmarker, healthlog, req, last

vars == <<db, userprofile, geneticmarker, healthlog, req, last>>

(* ------------------------------ bounds -------------------------------- *)
NumClients == 2
MaxDocs == 3
MaxDocsV == 2

Clients == 1..NumClients

(* --------------------------- Python values ---------------------------- *)
\* Optional[T]: None is the empty set, a present value v is {v}.
None == {}
Some(v) == {v}
Val(o) == CHOOSE v \in o : TRUE

\* Text that the code inspects is a tuple of characters; "" is <<>>.
EmptyStr == <<>>

\* Python truthiness of an Optional[str]: None and "" are falsy.
TruthyStr(o) == o # None /\ Val(o) # EmptyStr

\* Truthiness of the store handle (`if db`).
TruthyDb(d) == d # "none"

(* ------------------------------ schemas -------------------------------- *)
AgeMin == 0
AgeMax == 120
SleepMin == 0
SleepMax == 24
HydrationMin == 0
HydrationMax == 10000
ActivityMin == 0
ActivityMax == 1440

Genders == {"male", "female", "non-binary", "other"}
RiskLevels == {"low", "moderate", "high"}
Moods == {"low", "okay", "good", "great"}

\* EmailStr: exactly one "@", with a non-empty part on each side.
IsEmail(s) ==
    /\ Cardinality({i \in 1..Len(s) : s[i] = "@"}) = 1
    /\ \E i \in 2..(Len(s) - 1) : s[i] = "@"

\* A required field (Field(...)) must be present and not null.
Required(o) == o # None

\* Faulty variant: the upper bound taken as exclusive (lt for le).
InRangeExclusiveMax(o, lo, hi) == o = None \/ (Val(o) >= lo /\ Val(o) < hi)

\* Optional[int] = Field(None, ge=lo, le=hi)
InRange(o, lo, hi) == o = None \/ (Val(o) >= lo /\ Val(o) <= hi)

\* Optional[Literal[...]]
InEnum(o, S) == o = None \/ Val(o) \in S

UserProfileValid(b) ==
    /\ Required(b.name)
    /\ Required(b.email) /\ IsEmail(Val(b.email))
    /\ InRange(b.age, AgeMin, AgeMax)
    /\ InEnum(b.gender, Genders)

GeneticMarkerValid(b) ==
    /\ Required(b.user_email) /\ IsEmail(Val(b.user_email))
    /\ Required(b.gene)
    /\ Required(b.snp)
    /\ Required(b.risk_level) /\ InEnum(b.risk_level, RiskLevels)

HealthLogValid(b) ==
    /\ Required(b.user_email) /\ IsEmail(Val(b.user_email))
    /\ InEnum(b.mood, Moods)
    /\ InRange(b.sleep_hours, SleepMin, SleepMax)
    /\ InRange(b.hydration_ml, HydrationMin, HydrationMax)
    /\ InRange(b.activity_minutes, ActivityMin, ActivityMax)

(* ------------------------------ the store ------------------------------ *)
\* Number of documents stored in all collections.
TotalDocs == Len(userprofile) + Len(geneticmarker) + Len(healthlog)

\* The identifier the store assigns to the next inserted document.
NewObjectId == TotalDocs + 1

\* str(ObjectId): the identifier rendered as text, two hexadecimal digits.
HexDigits == <<"0", "1", "2", "3", "4", "5", "6", "7",
               "8", "9", "a", "b", "c", "d", "e", "f">>
StrId(oid) == <<HexDigits[((oid \div 16) % 16) + 1], HexDigits[(oid % 16) + 1]>>

\* collection.find_one({field: value}): the first matching document, or None.
FindOne(coll, field, value) ==
    LET hits == {i \in 1..Len(coll) : coll[i][field] = Some(value)}
    IN  IF hits = {} THEN None
        ELSE Some(coll[CHOOSE i \in hits : \A j \in hits : i <= j])

\* The documents of coll that match an exact-match filter (None: no filter),
\* in store order.
Matching(coll, filt) ==
    SelectSeq(coll, LAMBDA d : filt = None \/ d.user_email = filt)

Take(s, n) == IF Len(s) <= n THEN s ELSE SubSeq(s, 1, n)

\* Exceptions.
NoExc == [type |-> "none", status_code |-> 0, detail |-> ""]
HTTPException(code, msg) == [type |-> "HTTPException", status_code |-> code, detail |-> msg]
StorageExc(msg) == [type |-> "Exception", status_code |-> 0, detail |-> msg]

\* The exception a store operation raises: the handle was never initialised,
\* the operation failed (ok = FALSE), or none.
StoreRaises(d, ok) ==
    IF d = "none" THEN StorageExc("StorageUnavailable")
    ELSE IF ~ok THEN StorageExc("StorageError")
    ELSE NoExc

\* create_document(collection, data): the document as stored.
NewDocument(body) == [f \in (DOMAIN body) \cup {"_id"} |->
                        IF f = "_id" THEN NewObjectId ELSE body[f]]

\* get_documents(collection, filter, limit): up to limit matching documents.
GetDocuments(coll, filt, limit) == Take(Matching(coll, filt), limit)

(* --------------------------- request handlers -------------------------- *)
Idle == [pc |-> "idle", op |-> "none", body |-> <<>>]
Inserting(op, body) == [pc |-> "insert", op |-> op, body |-> body]

\* Create requests that passed their lookup and have not inserted yet.
InFlight == Cardinality({c \in Clients : req[c].pc = "insert"})

\* What one handler step did: the exception raised inside the handler's try
\* block, the HTTP status returned (0: the handler has not returned yet) and
\* the response body.
Event(op, body, raised, status, result) ==
    [op |-> op, body |-> body, raised |-> raised,
     status |-> status, result |-> result]
NoEvent == Event("none", <<>>, NoExc, 0, <<>>)

\* Faulty variant: the `except HTTPException: raise` clause left out.
CatchEverything(e) == HTTPException(500, e.detail)

\* except HTTPException: raise / except Exception: raise HTTPException(500)
Catch(e) ==
    IF e.type = "HTTPException" THEN e ELSE HTTPException(500, e.detail)

\* except Exception: raise HTTPException(500) of the list handlers
CatchList(e) == HTTPException(500, e.detail)

\* A step that ends the request with a response.
Respond(c, ev) ==
    /\ last' = ev
    /\ req' = [req EXCEPT ![c] = Idle]

\* 422: the body fails validation, the handler is never entered.
Reject(c, op, body) ==
    /\ Respond(c, Event(op, body, NoExc, 422, <<>>))
    /\ UNCHANGED <<db, userprofile, geneticmarker, healthlog>>

\* The handler raised e inside its try block.
Raise(c, op, body, e) ==
    /\ Respond(c, Event(op, body, e, Catch(e).status_code, <<>>))
    /\ UNCHANGED <<db, userprofile, geneticmarker, healthlog>>

\* The lookup passed: the handler goes on to create_document.
Proceed(c, op, body, cap) ==
    /\ TotalDocs + InFlight < cap
    /\ req' = [req EXCEPT ![c] = Inserting(op, body)]
    /\ last' = Event(op, body, NoExc, 0, <<>>)
    /\ UNCHANGED <<db, userprofile, geneticmarker, healthlog>>

\* Faulty variant: the duplicate lookup made on the name.
create_user_existing_by_name(d, coll, body) ==
    IF TruthyDb(d) THEN FindOne(coll, "name", Val(body.name)) ELSE None

\* existing = db["userprofile"].find_one({"email": profile.email}) if db else None
create_user_existing(d, coll, body) ==
    IF TruthyDb(d) THEN FindOne(coll, "email", Val(body.email)) ELSE None

\* Faulty variant: the user check of POST /markers left out.
add_marker_unchecked(d, coll, body) == FALSE

\* db and not db["userprofile"].find_one({"email": marker.user_email})
add_marker_user_missing(d, coll, body) ==
    TruthyDb(d) /\ FindOne(coll, "email", Val(body.user_email)) = None

\* Faulty variant: the user check of POST /logs left out.
add_health_log_unchecked(d, coll, body) == FALSE

\* db and not db["userprofile"].find_one({"email": log.user_email})
add_health_log_user_missing(d, coll, body) ==
    TruthyDb(d) /\ FindOne(coll, "email", Val(body.user_email)) = None

\* Faulty variant: no HTTPException raised on a duplicate.
create_user_lookup_no_conflict(c, body, ok, cap) ==
    /\ req[c].pc = "idle"
    /\ IF ~UserProfileValid(body) THEN Reject(c, "create_user", body)
       ELSE IF TruthyDb(db) /\ ~ok
            THEN Raise(c, "create_user", body, StorageExc("StorageError"))
       ELSE Proceed(c, "create_user", body, cap)

\* POST /users, up to the duplicate check.
create_user_lookup(c, body, ok, cap) ==
    /\ req[c].pc = "idle"
    /\ IF ~UserProfileValid(body) THEN Reject(c, "create_user", body)
       ELSE IF TruthyDb(db) /\ ~ok
            THEN Raise(c, "create_user", body, StorageExc("StorageError"))
       ELSE IF create_user_existing(db, userprofile, body) # None
            THEN Raise(c, "create_user", body,
                       HTTPException(409, "User with this email already exists"))
       ELSE Proceed(c, "create_user", body, cap)

\* POST /markers, up to the user check.
add_marker_lookup(c, body, ok, cap) ==
    /\ req[c].pc = "idle"
    /\ IF ~GeneticMarkerValid(body) THEN Reject(c, "add_marker", body)
       ELSE IF TruthyDb(db) /\ ~ok
            THEN Raise(c, "add_marker", body, StorageExc("StorageError"))
       ELSE IF add_marker_user_missing(db, userprofile, body)
            THEN Raise(c, "add_marker", body,
                       HTTPException(404, "User not found for user_email"))
       ELSE Proceed(c, "add_marker", body, cap)

\* POST /logs, up to the user check.
add_health_log_lookup(c, body, ok, cap) ==
    /\ req[c].pc = "idle"
    /\ IF ~HealthLogValid(body) THEN Reject(c, "add_health_log", body)
       ELSE IF TruthyDb(db) /\ ~ok
            THEN Raise(c, "add_health_log", body, StorageExc("StorageError"))
       ELSE IF add_health_log_user_missing(db, userprofile, body)
            THEN Raise(c, "add_health_log", body,
                       HTTPException(404, "User not found for user_email"))
       ELSE Proceed(c, "add_health_log", body, cap)

\* inserted_id = create_document(collection, body); return {"id": inserted_id}
Created(c, op, body) ==
    Respond(c, Event(op, body, NoExc, 201, [id |-> StrId(NewObjectId)]))

create_user_insert(c, ok) ==
    /\ req[c].pc = "insert" /\ req[c].op = "create_user"
    /\ LET body == req[c].body
           e == StoreRaises(db, ok)
       IN  IF e # NoExc THEN Raise(c, "create_user", body, e)
           ELSE /\ userprofile' = Append(userprofile, NewDocument(body))
                /\ Created(c, "create_user", body)
                /\ UNCHANGED <<db, geneticmarker, healthlog>>

add_marker_insert(c, ok) ==
    /\ req[c].pc = "insert" /\ req[c].op = "add_marker"
    /\ LET body == req[c].body
           e == StoreRaises(db, ok)
       IN  IF e # NoExc THEN Raise(c, "add_marker", body, e)
           ELSE /\ geneticmarker' = Append(geneticmarker, NewDocument(body))
                /\ Created(c, "add_marker", body)
                /\ UNCHANGED <<db, userprofile, healthlog>>

add_health_log_insert(c, ok) ==
    /\ req[c].pc = "insert" /\ req[c].op = "add_health_log"
    /\ LET body == req[c].body
           e == StoreRaises(db, ok)
       IN  IF e # NoExc THEN Raise(c, "add_health_log", body, e)
           ELSE /\ healthlog' = Append(healthlog, NewDocument(body))
                /\ Created(c, "add_health_log", body)
                /\ UNCHANGED <<db, userprofile, geneticmarker>>

(* ----------------------------- list handlers --------------------------- *)
DefaultUsersLimit == 50
DefaultListLimit == 100

\* for it in items: if it.get("_id"): it["_id"] = str(it["_id"])
StrIds(items) == [i \in 1..Len(items) |-> [items[i] EXCEPT !._id = StrId(@)]]

\* filt = {"user_email": user_email} if user_email else {}
list_filter(user_email) == IF TruthyStr(user_email) THEN user_email ELSE None

\* One list endpoint: get_documents, identifiers to text, 200; 500 on failure.
ListResponse(c, op, query, coll, filt, ok) ==
    LET e == StoreRaises(db, ok)
    IN  /\ req[c].pc = "idle"
        /\ IF e # NoExc
           THEN Respond(c, Event(op, query, e, CatchList(e).status_code, <<>>))
           ELSE Respond(c, Event(op, query, NoExc, 200,
                                 StrIds(GetDocuments(coll, filt, query.limit))))
        /\ UNCHANGED <<db, userprofile, geneticmarker, healthlog>>

\* Faulty variant: GET /users reads the geneticmarker collection.
list_users_wrong_collection(c, limit, ok) ==
    ListResponse(c, "list_users", [user_email |-> None, limit |-> limit],
                 geneticmarker, None, ok)

list_users(c, limit, ok) ==
    ListResponse(c, "list_users", [user_email |-> None, limit |-> limit],
                 userprofile, None, ok)

list_markers(c, user_email, limit, ok) ==
    ListResponse(c, "list_markers", [user_email |-> user_email, limit |-> limit],
                 geneticmarker, list_filter(user_email), ok)

list_health_logs(c, user_email, limit, ok) ==
    ListResponse(c, "list_health_logs", [user_email |-> user_email, limit |-> limit],
                 healthlog, list_filter(user_email), ok)

(* ------------------------------- GET /test ----------------------------- *)
TestMaxCollections == 10

\* db.list_collection_names(): the collections that hold a document.
CollectionNames ==
    (IF Len(userprofile) > 0 THEN <<"userprofile">> ELSE <<>>)
    \o (IF Len(geneticmarker) > 0 THEN <<"geneticmarker">> ELSE <<>>)
    \o (IF Len(healthlog) > 0 THEN <<"healthlog">> ELSE <<>>)

TestInitial ==
    [backend |-> "Running", database |-> "Not Available", database_url |-> None,
     database_name |-> None, connection_status |-> "Not Connected",
     collections |-> <<>>]

\* Faulty variant: no inner try, the failure reaches the outer except clause.
TestListingNoInnerTry(r, listing) ==
    IF listing = "raises"
    THEN [r EXCEPT !.database = "Error: StorageError"]
    ELSE [r EXCEPT !.collections = Take(CollectionNames, TestMaxCollections),
                   !.database = "Connected & Working"]

\* The inner try: list the collection names.
TestListing(r, listing) ==
    IF listing = "raises"
    THEN [r EXCEPT !.database = "Connected but Error: StorageError"]
    ELSE [r EXCEPT !.collections = Take(CollectionNames, TestMaxCollections),
                   !.database = "Connected & Working"]

\* The outer try.  env: DATABASE_URL is set; name: db.name is "ok", "missing"
\* (hasattr is false) or "raises"; listing: list_collection_names is "ok" or
\* "raises".  The result is the status and the body returned.
TestResponse(d, env, name, listing) ==
    IF d = "none"
    THEN [status |-> 200,
          body |-> [TestInitial EXCEPT !.database = "Available but not initialized"]]
    ELSE LET r1 == [TestInitial EXCEPT
                      !.database = "Available",
                      !.database_url = Some(IF env THEN "Set" ELSE "Not Set")]
         IN  IF name = "raises"
             THEN [status |-> 200,
                   body |-> [r1 EXCEPT !.database = "Error: StorageError"]]
             ELSE [status |-> 200,
                   body |-> TestListing(
                       [r1 EXCEPT
                          !.database_name =
                              Some(IF name = "ok" THEN "dna" ELSE "Connected"),
                          !.connection_status = "Connected"],
                       listing)]

test_database(c, env, name, listing) ==
    LET r == TestResponse(db, env, name, listing)
    IN  /\ req[c].pc = "idle"
        /\ Respond(c, Event("test_database",
                            [env |-> env, name |-> name, listing |-> listing],
                            NoExc, r.status, r.body))
        /\ UNCHANGED <<db, userprofile, geneticmarker, healthlog>>

(* -------------------------------- inputs ------------------------------- *)
EmailA == <<"a", "@", "x">>
EmailB == <<"b", "@", "x">>
EmailBad == <<"a", "x">>

Profile(name, email, age, gender) ==
    [name |-> name, email |-> email, age |-> age, gender |-> gender]
Marker(user_email, gene, snp, risk_level) ==
    [user_email |-> user_email, gene |-> gene, snp |-> snp,
     risk_level |-> risk_level, note |-> None]
Log(user_email, mood, sleep_hours, hydration_ml, activity_minutes) ==
    [user_email |-> user_email, mood |-> mood, sleep_hours |-> sleep_hours,
     hydration_ml |-> hydration_ml, activity_minutes |-> activity_minutes]

\* Request bodies of the concurrent specifications: two profiles that share
\* an email and differ elsewhere, one profile with another email.
ProfileBodies ==
    {Profile(Some("Ana"), Some(e), Some(30), None) : e \in {EmailA, EmailB}}
    \cup {Profile(Some("Bob"), Some(EmailA), None, Some("male"))}
MarkerBodies ==
    {Marker(Some(e), Some("MTHFR"), Some("rs1801133"), Some("moderate"))
        : e \in {EmailA, EmailB}}
LogBodies ==
    {Log(Some(e), Some("good"), Some(8), None, None) : e \in {EmailA, EmailB}}
Limits == {1}
EmailParams == {None, Some(EmptyStr), Some(EmailA), Some(EmailB)}

\* Request bodies of the validation specification: every combination of
\* absent, empty, boundary and out-of-range field values.
Around(lo, hi) == {None, Some(lo - 1), Some(lo), Some(hi), Some(hi + 1)}
ProfileBodiesV ==
    {Profile(n, e, a, g) :
        n \in {None, Some(""), Some("Ana")},
        e \in {Some(EmailA), Some(EmailBad)},
        a \in Around(AgeMin, AgeMax),
        g \in {None, Some("other"), Some("robot")}}
MarkerBodiesV ==
    {Marker(e, g, s, r) :
        e \in {Some(EmailA), Some(EmailBad)},
        g \in {None, Some(""), Some("MTHFR")},
        s \in {None, Some(""), Some("rs1801133")},
        r \in {None, Some("high"), Some("severe")}}
LogBodiesV ==
    {Log(e, m, s, h, a) :
        e \in {Some(EmailA)},
        m \in {None, Some("sad")},
        s \in Around(SleepMin, SleepMax),
        h \in Around(HydrationMin, HydrationMax),
        a \in Around(ActivityMin, ActivityMax)}

(* ---------------------------- specifications --------------------------- *)
Init ==
    /\ db \in {"none", "up"}
    /\ userprofile = <<>>
    /\ geneticmarker = <<>>
    /\ healthlog = <<>>
    /\ req = [c \in Clients |-> Idle]
    /\ last = NoEvent

\* Concurrent create requests.
Next ==
    \E c \in Clients :
        \/ \E b \in ProfileBodies, ok \in BOOLEAN : create_user_lookup(c, b, ok, MaxDocs)
        \/ \E ok \in BOOLEAN : create_user_insert(c, ok)
        \/ \E b \in MarkerBodies, ok \in BOOLEAN : add_marker_lookup(c, b, ok, MaxDocs)
        \/ \E ok \in BOOLEAN : add_marker_insert(c, ok)
        \/ \E b \in LogBodies, ok \in BOOLEAN : add_health_log_lookup(c, b, ok, MaxDocs)
        \/ \E ok \in BOOLEAN : add_health_log_insert(c, ok)

Spec == Init /\ [][Next]_vars

\* Concurrent create requests, list requests and the diagnostic request.  A
\* read request changes neither the store nor the handlers in flight, so it
\* is explored as the last step of a behaviour.
ReadOps == {"list_users", "list_markers", "list_health_logs", "test_database"}
NoReadYet == last.op \notin ReadOps

NextRead ==
    \E c \in Clients :
        \/ \E b \in ProfileBodies, ok \in BOOLEAN :
              NoReadYet /\ create_user_lookup(c, b, ok, MaxDocs)
        \/ \E ok \in BOOLEAN : NoReadYet /\ create_user_insert(c, ok)
        \/ \E b \in MarkerBodies, ok \in BOOLEAN :
              NoReadYet /\ add_marker_lookup(c, b, ok, MaxDocs)
        \/ \E ok \in BOOLEAN : NoReadYet /\ add_marker_insert(c, ok)
        \/ \E b \in LogBodies, ok \in BOOLEAN :
              NoReadYet /\ add_health_log_lookup(c, b, ok, MaxDocs)
        \/ \E ok \in BOOLEAN : NoReadYet /\ add_health_log_insert(c, ok)
        \/ \E n \in Limits \cup {DefaultUsersLimit}, ok \in BOOLEAN :
              NoReadYet /\ list_users(c, n, ok)
        \/ \E e \in EmailParams, n \in Limits \cup {DefaultListLimit}, ok \in BOOLEAN :
              NoReadYet /\ list_markers(c, e, n, ok)
        \/ \E e \in EmailParams, n \in Limits \cup {DefaultListLimit}, ok \in BOOLEAN :
              NoReadYet /\ list_health_logs(c, e, n, ok)
        \/ \E env \in BOOLEAN, name \in {"ok", "missing", "raises"},
              listing \in {"ok", "raises"} :
              NoReadYet /\ test_database(c, env, name, listing)

SpecRead == Init /\ [][NextRead]_vars

\* Create requests handled one at a time: any requests of the concurrent
\* specification's bodies, then one request over the validation bodies.
Probed ==
    \/ last.op = "create_user" /\ last.body \notin ProfileBodies
    \/ last.op = "add_marker" /\ last.body \notin MarkerBodies
    \/ last.op = "add_health_log" /\ last.body \notin LogBodies

NextV ==
    \/ \E b \in ProfileBodies \cup ProfileBodiesV :
          ~Probed /\ create_user_lookup(1, b, TRUE, MaxDocsV)
    \/ create_user_insert(1, TRUE)
    \/ \E b \in MarkerBodies \cup MarkerBodiesV :
          ~Probed /\ add_marker_lookup(1, b, TRUE, MaxDocsV)
    \/ add_marker_insert(1, TRUE)
    \/ \E b \in LogBodies \cup LogBodiesV :
          ~Probed /\ add_health_log_lookup(1, b, TRUE, MaxDocsV)
    \/ add_health_log_insert(1, TRUE)

SpecV == Init /\ [][NextV]_vars

(* ================================ claims ================================ *)
\* The emails of the stored profiles.
ProfileEmails == {userprofile[i].email : i \in 1..Len(userprofile)}

\* The step finishes the insert of a create handler.
InsertStep == \E c \in Clients : req[c].pc = "insert" /\ req'[c].pc = "idle"

\* The step is the lookup step of handler op, and its store lookup did not fail.
LookupStep(op) ==
    /\ ~InsertStep
    /\ last'.op = op
    /\ last'.status # 422
    /\ last'.raised.type # "Exception"

StoreUnchanged == UNCHANGED <<userprofile, geneticmarker, healthlog>>

\* C1: with the store connected, a POST /users whose email is the email of a
\* stored profile returns 409 whatever its name, age and gender are, and the
\* request leaves the collections as they were.
C1_DuplicateEmailConflict ==
    [][(LookupStep("create_user") /\ db = "up"
            /\ last'.body.email \in ProfileEmails)
          => (last'.status = 409 /\ StoreUnchanged)]_vars

\* C1 witness: a 409 for a request whose email is stored under another name
\* and age.
C1_Witness ==
    /\ last.op = "create_user" /\ last.status = 409
    /\ \E i \in 1..Len(userprofile) :
          /\ userprofile[i].email = last.body.email
          /\ userprofile[i].name # last.body.name
          /\ userprofile[i].age # last.body.age

\* The collection a create handler inserts into.
CollectionOf(op, up, gm, hl) ==
    IF op = "create_user" THEN up ELSE IF op = "add_marker" THEN gm ELSE hl

\* C2: with the store connected, POST /markers and POST /logs with a
\* user_email of no stored profile return 404 and insert nothing; with the
\* user_email of a stored profile the handler goes on to its insert, which
\* returns 201 and adds exactly that one document to its collection.
C2_UserMustExist ==
    [][\A op \in {"add_marker", "add_health_log"} :
          /\ (LookupStep(op) /\ db = "up")
                => IF last'.body.user_email \in ProfileEmails
                   THEN last'.status = 0 /\ StoreUnchanged
                   ELSE last'.status = 404 /\ StoreUnchanged
          /\ (InsertStep /\ last'.op = op /\ last'.raised = NoExc)
                => /\ last'.status = 201
                   /\ last'.body.user_email \in ProfileEmails
                   /\ LET old == CollectionOf(op, userprofile, geneticmarker, healthlog)
                          new == CollectionOf(op, userprofile', geneticmarker', healthlog')
                      IN  /\ Len(new) = Len(old) + 1
                          /\ SubSeq(new, 1, Len(old)) = old
                          /\ new[Len(new)].user_email = last'.body.user_email
                   /\ userprofile' = userprofile
                   /\ op = "add_marker" => healthlog' = healthlog
                   /\ op = "add_health_log" => geneticmarker' = geneticmarker]_vars

\* C2 witness: a marker request answered 201 for the email of a stored
\* profile.
C2_Witness ==
    /\ last.op = "add_marker" /\ last.status = 201
    /\ last.body.user_email \in ProfileEmails
    /\ Len(geneticmarker) = 1

\* C3: under any interleaving, every stored genetic marker and every stored
\* health log has the user_email of a stored profile.
C3_ReferencesExist ==
    /\ \A i \in 1..Len(geneticmarker) : geneticmarker[i].user_email \in ProfileEmails
    /\ \A i \in 1..Len(healthlog) : healthlog[i].user_email \in ProfileEmails

\* C3 witness: a marker and a health log are stored.
C3_Witness == Len(geneticmarker) >= 1 /\ Len(healthlog) >= 1

\* The stored profiles with email e, and the POST /users requests for e that
\* passed their duplicate check and have not inserted yet.
Stored(e) == Cardinality({i \in 1..Len(userprofile) : userprofile[i].email = e})
Pending(e) == Cardinality({c \in Clients : req[c].pc = "insert"
                              /\ req[c].op = "create_user" /\ req[c].body.email = e})

\* C4: profiles that share an email come only from POST /users requests that
\* passed the duplicate check before the first of them inserted: once an email
\* is stored, the profiles stored with it and the requests still in flight for
\* it are together at most the number of concurrent handlers.
C4_DuplicatesOnlyByRace ==
    \A e \in {Some(EmailA), Some(EmailB)} :
        Stored(e) >= 1 => Stored(e) + Pending(e) <= NumClients

\* C4 witness: two stored profiles share an email, the second insert just
\* answered 201.
C4_Witness ==
    /\ last.op = "create_user" /\ last.status = 201
    /\ \E i, j \in 1..Len(userprofile) :
          i < j /\ userprofile[i].email = userprofile[j].email
                /\ userprofile[j].email = last.body.email

Range(s) == {s[i] : i \in 1..Len(s)}

\* The identifiers, as text, of the documents stored in all collections.
StoredIds ==
    {StrId(d._id) : d \in Range(userprofile) \cup Range(geneticmarker) \cup Range(healthlog)}

\* POST /users with a valid profile whose email is not stored, the store
\* connected and its operations succeeding: the lookup passes, and the insert
\* answers 201 with a non-empty text identifier that no document stored before
\* has, the profile being stored under it.
C5_Created ==
    /\ (LookupStep("create_user") /\ db = "up" /\ last'.body.email \notin ProfileEmails)
          => last'.status = 0
    /\ (InsertStep /\ last'.op = "create_user" /\ last'.raised = NoExc)
          => /\ last'.status = 201
             /\ Len(last'.result.id) > 0
             /\ last'.result.id \notin StoredIds
             /\ Len(userprofile') = Len(userprofile) + 1
             /\ SubSeq(userprofile', 1, Len(userprofile)) = userprofile
             /\ LET d == userprofile'[Len(userprofile')]
                IN  /\ StrId(d._id) = last'.result.id
                    /\ \A f \in DOMAIN last'.body : d[f] = last'.body[f]

\* A GET /users answered 200 with a limit of at least minLimit lists every
\* stored profile, its identifier as text.
C5_Listed(minLimit) ==
    (last'.op = "list_users" /\ last'.status = 200 /\ last'.body.limit >= minLimit)
        => \A d \in Range(StrIds(userprofile')) : d \in Range(last'.result)

\* C5 as amended: a valid profile with a new email is created with a fresh
\* non-empty text identifier, and a later GET /users whose limit is at least
\* the number of stored profiles returns a list that contains it.
C5_CreatedThenListedWithinLimit ==
    [][C5_Created /\ C5_Listed(Len(userprofile'))]_vars

\* C5 as stated: a valid profile with a new email is created with a fresh
\* non-empty text identifier, and a later GET /users with any limit returns a
\* list that contains it.
C5_CreatedThenListedAnyLimit ==
    [][C5_Created /\ C5_Listed(0)]_vars

\* C5 witness: GET /users with the default limit lists two stored profiles.
C5_Witness ==
    /\ last.op = "list_users" /\ last.status = 200
    /\ last.body.limit = DefaultUsersLimit
    /\ Len(userprofile) = 2
    /\ last.result = StrIds(userprofile)

\* C6 as stated: GET /markers and GET /logs with a user_email parameter X,
\* the empty string included, return only records whose user_email is X; with
\* the parameter omitted they return at most limit records.
C6_FilterByUserEmail ==
    (last.op \in {"list_markers", "list_health_logs"} /\ last.status = 200)
        => IF last.body.user_email # None
           THEN \A d \in Range(last.result) : d.user_email = last.body.user_email
           ELSE Len(last.result) <= last.body.limit

\* The claimed bounds of the numeric fields.
Within(o, lo, hi) == o = None \/ (lo <= Val(o) /\ Val(o) <= hi)
ProfileWithin(b) == Within(b.age, 0, 120)
LogWithin(b) ==
    /\ Within(b.sleep_hours, 0, 24)
    /\ Within(b.hydration_ml, 0, 10000)
    /\ Within(b.activity_minutes, 0, 1440)

\* The fields of a body other than the numeric ones are valid.
ProfileOtherwiseValid(b) ==
    /\ b.name # None
    /\ b.email # None /\ IsEmail(Val(b.email))
    /\ b.gender = None \/ Val(b.gender) \in Genders
LogOtherwiseValid(b) ==
    /\ b.user_email # None /\ IsEmail(Val(b.user_email))
    /\ b.mood = None \/ Val(b.mood) \in Moods

\* C7: a record whose other fields are valid is accepted exactly when each
\* supplied numeric field is within its bounds (age 0..120, sleep_hours 0..24,
\* hydration_ml 0..10000, activity_minutes 0..1440); one out-of-range field
\* alone rejects the record whatever the other fields are; no stored record has
\* a numeric field out of bounds.
C7_NumericBounds ==
    /\ last.op = "create_user"
          => /\ ~ProfileWithin(last.body) => last.status = 422
             /\ (ProfileWithin(last.body) /\ ProfileOtherwiseValid(last.body))
                   => last.status # 422
    /\ last.op = "add_health_log"
          => /\ ~LogWithin(last.body) => last.status = 422
             /\ (LogWithin(last.body) /\ LogOtherwiseValid(last.body))
                   => last.status # 422
    /\ \A d \in Range(userprofile) : ProfileWithin(d)
    /\ \A d \in Range(healthlog) : LogWithin(d)

\* C7 witness: a health log with every numeric field on a boundary was
\* accepted and is stored.
C7_Witness ==
    /\ last.op = "add_health_log" /\ last.status = 201
    /\ \E d \in Range(healthlog) :
          /\ d.sleep_hours = Some(24)
          /\ d.hydration_ml = Some(0)
          /\ d.activity_minutes = Some(1440)

\* C8 as stated: a request with a profile of empty name, or a marker of empty
\* gene or snp, is answered 422, and no such profile or marker is stored.
C8_EmptyTextRejected ==
    /\ (last.op = "create_user" /\ last.status # 0 /\ last.body.name = Some(""))
          => last.status = 422
    /\ (last.op = "add_marker" /\ last.status # 0
          /\ (last.body.gene = Some("") \/ last.body.snp = Some("")))
          => last.status = 422
    /\ \A d \in Range(userprofile) : d.name # Some("")
    /\ \A d \in Range(geneticmarker) : d.gene # Some("") /\ d.snp # Some("")

\* C9: GET /test answers 200 in every store state and no exception leaves the
\* handler; the handle absent, a failing name lookup and a failing listing of
\* the collection names each show as their own status string in the body.
C9_TestNeverRaises ==
    last.op = "test_database"
        => /\ last.status = 200
           /\ last.raised = NoExc
           /\ last.result.backend = "Running"
           /\ last.result.database =
                 (IF db = "none" THEN "Available but not initialized"
                  ELSE IF last.body.name = "raises" THEN "Error: StorageError"
                  ELSE IF last.body.listing = "raises"
                       THEN "Connected but Error: StorageError"
                  ELSE "Connected & Working")
           /\ (db = "up" /\ last.body.name # "raises" /\ last.body.listing = "ok")
                 => last.result.collections = CollectionNames

\* C9 witness: the store is connected, with documents, and listing the
\* collection names raises.
C9_Witness ==
    /\ last.op = "test_database" /\ db = "up"
    /\ last.body.name = "ok" /\ last.body.listing = "raises"
    /\ Len(userprofile) >= 1
    /\ last.status = 200

\* C10: in the create and list handlers an exception of a store operation is
\* answered 500, never 200 or 201, and a 409 or 404 raised in a create handler
\* is answered as 409 or 404.
C10_ErrorTranslation ==
    last.op \in {"create_user", "add_marker", "add_health_log",
                 "list_users", "list_markers", "list_health_logs"}
        => /\ last.raised.type = "Exception" => last.status = 500
           /\ last.raised.type = "HTTPException"
                 => /\ last.status = last.raised.status_code
                    /\ last.status = (IF last.op = "create_user" THEN 409 ELSE 404)
           /\ last.status \in {200, 201} => last.raised = NoExc

\* C10 witness: a duplicate POST /users answered 409 while the other create
\* handler is between its lookup and its insert.
C10_Witness ==
    /\ last.op = "create_user" /\ last.raised.type = "HTTPException"
    /\ last.status = 409
    /\ \E c \in Clients : req[c].pc = "insert"

====
